---- MODULE Spec2Model ----
(***************************************************************************)
(* Model of webauthn.js: the two-phase WebAuthn ceremony driver            *)
(* webauthn_internal and its two wrappers webauthn_register and            *)
(* webauthn_login.                                                         *)
(*                                                                         *)
(* A ceremony is one call of a wrapper.  Its promise chain is modelled at  *)
(* the settlement points of the three asynchronous operations (begin post, *)
(* credential capability, complete post): each action is one settlement    *)
(* together with every handler of the chain that runs because of it.       *)
(* Everything a ceremony does to the outside world (posts, capability      *)
(* calls, callback invocations) is appended to its log, in program order.  *)
(***************************************************************************)
EXTENDS Integers, Sequences, FiniteSets, TLC

(* Number of ceremony invocations that may be in flight together. *)
NumCeremonies == 2

Cer == 1..NumCeremonies

(* ---- constants of the module (webauthn.js:66-69) ---- *)
WEBAUTHN_REGISTER_FAIL_BEGIN == 1
WEBAUTHN_REGISTER_FAIL_COMPLETE == 2
WEBAUTHN_LOGIN_FAIL_BEGIN == 3
WEBAUTHN_LOGIN_FAIL_COMPLETE == 4

(* ---- inputs ---- *)

(* Caller payloads: open string-keyed maps. *)
EmptyPayload == [k \in {} |-> ""]

Payloads == { EmptyPayload, [k \in {"username"} |-> "alice"] }

(* Response objects the transport resolves a begin post with. *)
BeginResponses == { [status |-> 200, data |-> "challengeOptions"] }

(* Response objects the transport resolves a complete post with. *)
CompleteResponses == { [status |-> 200, data |-> "verified"] }

(* What navigator.credentials.create / .get can resolve with: no           *)
(* credential at all (null), or a public-key credential.                   *)
NullCredential == [type |-> "null"]

Attestation ==
  [type |-> "public-key", rawId |-> "rawId",
   response |-> [attestationObject |-> "bytesA", clientDataJSON |-> "bytesB"]]

Assertion ==
  [type |-> "public-key", rawId |-> "rawId",
   response |-> [authenticatorData |-> "bytesC", clientDataJSON |-> "bytesB",
                 signature |-> "bytesD"]]

Credentials == {NullCredential, Attestation, Assertion}

(* credentials_callback of each wrapper: which capability entry point it   *)
(* calls, and so what that entry point can resolve with.                   *)
CredentialResults(method) ==
  IF method = "create" THEN {NullCredential, Attestation}
                       ELSE {NullCredential, Assertion}

(* A user callback either returns (undefined) or throws. *)
CallbackOutcomes == {"returns", "throws"}

(* ---- state ---- *)
VARIABLE pc     \* pc[c]: where ceremony c's promise chain is waiting
VARIABLE args   \* args[c]: the arguments webauthn_internal was called with
VARIABLE log    \* log[c]: what ceremony c has done and been told, in order
VARIABLE ret    \* ret[c]: the value the wrapper returned to its caller
VARIABLE built  \* one call of a complete_payload_callback: arguments and result
VARIABLE wire   \* one request/response pair passing through the interceptors

vars == <<pc, args, log, ret, built, wire>>

NoArgs ==
  [payload |-> EmptyPayload, method |-> "none", beginurl |-> "", completeurl |-> "",
   begin_failure_code |-> 0, complete_failure_code |-> 0]

(* No complete_payload_callback under examination. *)
NotBuilt ==
  [stage |-> "none", method |-> "none", payload |-> EmptyPayload,
   auth |-> NullCredential, result |-> EmptyPayload]

(* No request under examination. *)
NoWire == [stage |-> "none"]

(* No ceremony has been called. *)
NoCeremony ==
  /\ pc = [c \in Cer |-> "idle"]
  /\ args = [c \in Cer |-> NoArgs]
  /\ log = [c \in Cer |-> << >>]
  /\ ret = [c \in Cer |-> "not called"]

Init ==
  /\ NoCeremony
  /\ built = NotBuilt
  /\ wire = NoWire

(* ---- pure helpers ---- *)

(* new Uint8Array(buffer): a typed view of the same bytes. *)
Uint8Array(buffer) == "Uint8Array:" \o buffer

(* The spread written after the listed keys: {k1: v1, ..., ...payload}. *)
Merge_payload_wins(payload, extra) ==
  [k \in DOMAIN payload \cup DOMAIN extra |->
     IF k \in DOMAIN payload THEN payload[k] ELSE extra[k]]

(* {...payload, k1: v1, ...}: shallow merge, the listed keys winning. *)
Merge(payload, extra) ==
  [k \in DOMAIN payload \cup DOMAIN extra |->
     IF k \in DOMAIN extra THEN extra[k] ELSE payload[k]]

(* complete_payload_callback of webauthn_login. *)
login_complete_payload_callback(payload, assertion) ==
  Merge(payload,
        [credentialId |-> Uint8Array(assertion.rawId),
         authenticatorData |-> Uint8Array(assertion.response.authenticatorData),
         clientDataJSON |-> Uint8Array(assertion.response.clientDataJSON),
         signature |-> Uint8Array(assertion.response.signature)])

(* The registration payload built without clientDataJSON. *)
register_complete_payload_callback_no_client_data(payload, attestation) ==
  [k \in DOMAIN payload \cup {"attestationObject"} |->
     IF k = "attestationObject"
     THEN "Uint8Array:" \o attestation.response.attestationObject
     ELSE payload[k]]

(* complete_payload_callback of webauthn_register. *)
register_complete_payload_callback(payload, attestation) ==
  Merge(payload,
        [attestationObject |-> Uint8Array(attestation.response.attestationObject),
         clientDataJSON |-> Uint8Array(attestation.response.clientDataJSON)])

(* Reading a property of null throws a TypeError. *)
complete_context_callback_throws(auth) == auth.type = "null"

complete_context_callback(a, auth) ==
  IF a.method = "create" THEN register_complete_payload_callback(a.payload, auth)
                         ELSE login_complete_payload_callback(a.payload, auth)

(* ---- the handlers of the promise chain, as the events they cause ---- *)

(* ax.post(url, body) *)
post(url, body) == [ev |-> "post", url |-> url, body |-> body]

(* .then(res => res.data) *)
then_data(res) == res.data

(* .catch(error => failure_callback(error, begin_failure_code)) *)
begin_catch(a, error) ==
  [ev |-> "failure_callback", error |-> error, code |-> a.begin_failure_code]

(* .then(opts => credentials_callback(opts)) *)
then_credentials(a, opts) ==
  [ev |-> "credentials_callback", method |-> a.method, opts |-> opts]

(* The complete payload posted to the begin url. *)
then_auth_beginurl(a, auth) == post(a.beginurl, complete_context_callback(a, auth))

(* .then(auth => { ax.post(completeurl, complete_context_callback(payload, auth)) ... }) *)
then_auth(a, auth) == post(a.completeurl, complete_context_callback(a, auth))

(* .then(res => success_callback(res)) *)
complete_then(res) == [ev |-> "success_callback", res |-> res]

(* The complete catch reporting the begin-phase code. *)
complete_catch_begin_code(a, error) ==
  [ev |-> "failure_callback", error |-> error, code |-> a.begin_failure_code]

(* .catch(error => failure_callback(error, complete_failure_code)) *)
complete_catch(a, error) ==
  [ev |-> "failure_callback", error |-> error, code |-> a.complete_failure_code]

(* ---- operations ---- *)

(* The capability called at once instead of from the chain of the begin   *)
(* post.                                                                   *)
webauthn_internal_unchained(c, a) ==
  /\ pc[c] = "idle"
  /\ pc' = [pc EXCEPT ![c] = "credentials"]
  /\ args' = [args EXCEPT ![c] = a]
  /\ log' = [log EXCEPT ![c] =
               << post(a.beginurl, a.payload), then_credentials(a, "undefined") >>]
  /\ ret' = [ret EXCEPT ![c] = "undefined"]
  /\ UNCHANGED <<built, wire>>

(* The arguments kept in one module-level slot shared by all invocations. *)
webauthn_internal_shared(c, a) ==
  /\ pc[c] = "idle"
  /\ pc' = [pc EXCEPT ![c] = "begin"]
  /\ args' = [d \in Cer |-> a]
  /\ log' = [log EXCEPT ![c] = << post(a.beginurl, a.payload) >>]
  /\ ret' = [ret EXCEPT ![c] = "undefined"]
  /\ UNCHANGED <<built, wire>>

(* webauthn_internal: issues the begin post and builds the chain.  Its     *)
(* body is a block with no return statement, so the call yields undefined. *)
webauthn_internal(c, a) ==
  /\ pc[c] = "idle"
  /\ pc' = [pc EXCEPT ![c] = "begin"]
  /\ args' = [args EXCEPT ![c] = a]
  /\ log' = [log EXCEPT ![c] = << post(a.beginurl, a.payload) >>]
  /\ ret' = [ret EXCEPT ![c] = "undefined"]
  /\ UNCHANGED <<built, wire>>

(* The login wrapper passing the registration failure codes. *)
webauthn_login_register_codes(c, payload) ==
  webauthn_internal(c,
    [payload |-> payload, method |-> "get",
     beginurl |-> "/api/auth/login/begin/", completeurl |-> "/api/auth/login/",
     begin_failure_code |-> WEBAUTHN_REGISTER_FAIL_BEGIN,
     complete_failure_code |-> WEBAUTHN_REGISTER_FAIL_COMPLETE])

webauthn_login(c, payload) ==
  webauthn_internal(c,
    [payload |-> payload, method |-> "get",
     beginurl |-> "/api/auth/login/begin/", completeurl |-> "/api/auth/login/",
     begin_failure_code |-> WEBAUTHN_LOGIN_FAIL_BEGIN,
     complete_failure_code |-> WEBAUTHN_LOGIN_FAIL_COMPLETE])

webauthn_register(c, payload) ==
  webauthn_internal(c,
    [payload |-> payload, method |-> "create",
     beginurl |-> "/api/auth/register/begin/", completeurl |-> "/api/auth/register/",
     begin_failure_code |-> WEBAUTHN_REGISTER_FAIL_BEGIN,
     complete_failure_code |-> WEBAUTHN_REGISTER_FAIL_COMPLETE])

(* The begin post resolves: res => res.data runs, the catch is skipped,    *)
(* and credentials_callback is called with the body.                       *)
BeginResolved(c, res) ==
  /\ pc[c] = "begin"
  /\ pc' = [pc EXCEPT ![c] = "credentials"]
  /\ log' = [log EXCEPT ![c] =
               @ \o << [ev |-> "begin_resolved", res |-> res],
                       then_credentials(args[c], then_data(res)) >>]
  /\ UNCHANGED <<args, ret, built, wire>>

(* The begin post rejects: res => res.data is skipped and the catch calls  *)
(* failure_callback.  The catch turns the rejection into a fulfilment with *)
(* failure_callback's return value, so the next then runs and calls        *)
(* credentials_callback with it; only if failure_callback throws does the  *)
(* chain stay rejected and skip the remaining handlers.                    *)
BeginRejected(c, error, fc) ==
  /\ pc[c] = "begin"
  /\ LET caught == << [ev |-> "begin_rejected", error |-> error],
                      begin_catch(args[c], error) >>
     IN IF fc = "throws"
        THEN /\ pc' = [pc EXCEPT ![c] = "unhandled"]
             /\ log' = [log EXCEPT ![c] = @ \o caught]
        ELSE /\ pc' = [pc EXCEPT ![c] = "credentials"]
             /\ log' = [log EXCEPT ![c] =
                          @ \o caught \o << then_credentials(args[c], "undefined") >>]
  /\ UNCHANGED <<args, ret, built, wire>>

(* The credential fields assigned into the caller's payload object         *)
(* (Object.assign(payload, ...)) instead of spread into a new one.         *)
CredentialsResolved_assign(c, auth) ==
  /\ pc[c] = "credentials"
  /\ auth \in CredentialResults(args[c].method)
  /\ IF complete_context_callback_throws(auth)
     THEN /\ pc' = [pc EXCEPT ![c] = "unhandled"]
          /\ log' = [log EXCEPT ![c] =
                       @ \o << [ev |-> "credentials_resolved", auth |-> auth] >>]
          /\ args' = args
     ELSE /\ pc' = [pc EXCEPT ![c] = "complete"]
          /\ log' = [log EXCEPT ![c] =
                       @ \o << [ev |-> "credentials_resolved", auth |-> auth],
                               then_auth(args[c], auth) >>]
          /\ args' = [args EXCEPT ![c].payload = complete_context_callback(args[c], auth)]
  /\ UNCHANGED <<ret, built, wire>>

(* The capability call resolves: the auth handler builds the complete      *)
(* payload (a TypeError if there is no credential to read) and issues the  *)
(* complete post.  The handler does not return the inner chain.            *)
CredentialsResolved(c, auth) ==
  /\ pc[c] = "credentials"
  /\ auth \in CredentialResults(args[c].method)
  /\ IF complete_context_callback_throws(auth)
     THEN /\ pc' = [pc EXCEPT ![c] = "unhandled"]
          /\ log' = [log EXCEPT ![c] =
                       @ \o << [ev |-> "credentials_resolved", auth |-> auth] >>]
     ELSE /\ pc' = [pc EXCEPT ![c] = "complete"]
          /\ log' = [log EXCEPT ![c] =
                       @ \o << [ev |-> "credentials_resolved", auth |-> auth],
                               then_auth(args[c], auth) >>]
  /\ UNCHANGED <<args, ret, built, wire>>

(* The capability's rejection caught and handed to failure_callback. *)
CredentialsRejected_reported(c) ==
  /\ pc[c] = "credentials"
  /\ pc' = [pc EXCEPT ![c] = "settled"]
  /\ log' = [log EXCEPT ![c] =
               @ \o << [ev |-> "credentials_rejected"],
                       complete_catch(args[c], "credentials error") >>]
  /\ UNCHANGED <<args, ret, built, wire>>

(* The capability call rejects (or credentials_callback throws): the auth  *)
(* handler is skipped and nothing handles the rejection.                   *)
CredentialsRejected(c) ==
  /\ pc[c] = "credentials"
  /\ pc' = [pc EXCEPT ![c] = "unhandled"]
  /\ log' = [log EXCEPT ![c] = @ \o << [ev |-> "credentials_rejected"] >>]
  /\ UNCHANGED <<args, ret, built, wire>>

(* The complete post resolves: success_callback is called with the         *)
(* response; if it throws, the catch chained after it calls                *)
(* failure_callback with the exception.                                    *)
CompleteResolved(c, res, sc, fc) ==
  /\ pc[c] = "complete"
  /\ LET called == << [ev |-> "complete_resolved", res |-> res], complete_then(res) >>
     IN IF sc = "returns"
        THEN /\ fc = "returns"
             /\ pc' = [pc EXCEPT ![c] = "settled"]
             /\ log' = [log EXCEPT ![c] = @ \o called]
        ELSE /\ pc' = [pc EXCEPT ![c] = IF fc = "throws" THEN "unhandled" ELSE "settled"]
             /\ log' = [log EXCEPT ![c] =
                          @ \o called
                            \o << complete_catch(args[c], "success_callback exception") >>]
  /\ UNCHANGED <<args, ret, built, wire>>

(* The complete post retried once after a rejection. *)
CompleteRejected_retry(c, error, fc) ==
  /\ pc[c] = "complete"
  /\ IF Len(SelectSeq(log[c], LAMBDA e : e.ev = "post")) < 3
     THEN /\ pc' = pc
          /\ log' = [log EXCEPT ![c] =
                       @ \o << [ev |-> "complete_rejected", error |-> error],
                               log[c][Len(log[c])] >>]
     ELSE /\ pc' = [pc EXCEPT ![c] = IF fc = "throws" THEN "unhandled" ELSE "settled"]
          /\ log' = [log EXCEPT ![c] =
                       @ \o << [ev |-> "complete_rejected", error |-> error],
                               complete_catch(args[c], error) >>]
  /\ UNCHANGED <<args, ret, built, wire>>

(* The complete post rejects: the catch calls failure_callback. *)
CompleteRejected(c, error, fc) ==
  /\ pc[c] = "complete"
  /\ pc' = [pc EXCEPT ![c] = IF fc = "throws" THEN "unhandled" ELSE "settled"]
  /\ log' = [log EXCEPT ![c] =
               @ \o << [ev |-> "complete_rejected", error |-> error],
                       complete_catch(args[c], error) >>]
  /\ UNCHANGED <<args, ret, built, wire>>

(* Every settlement the environment can deliver to ceremony c. *)
Settle(c) ==
  \/ \E res \in BeginResponses : BeginResolved(c, res)
  \/ \E fc \in CallbackOutcomes : BeginRejected(c, "begin error", fc)
  \/ \E auth \in Credentials : CredentialsResolved(c, auth)
  \/ CredentialsRejected(c)
  \/ \E res \in CompleteResponses, sc, fc \in CallbackOutcomes :
       CompleteResolved(c, res, sc, fc)
  \/ \E fc \in CallbackOutcomes : CompleteRejected(c, "complete error", fc)

Next ==
  \E c \in Cer :
    \/ \E payload \in Payloads : webauthn_login(c, payload)
    \/ \E payload \in Payloads : webauthn_register(c, payload)
    \/ Settle(c)

Spec == Init /\ [][Next]_vars

(* Every post and every capability call eventually settles. *)
FairSpec == Spec /\ \A c \in Cer : WF_vars(Settle(c))

(* ---- reading the log ---- *)

(* Positions of ceremony c's log holding an event of the given name. *)
Events(c, name) == {i \in DOMAIN log[c] : log[c][i].ev = name}

Count(c, name) == Cardinality(Events(c, name))

Has(c, name) == Events(c, name) # {}

(* Positions of the posts ceremony c made to the given url. *)
PostsTo(c, url) == {i \in Events(c, "post") : log[c][i].url = url}

BeginPosts(c) == PostsTo(c, args[c].beginurl)

CompletePosts(c) == PostsTo(c, args[c].completeurl)

(* The codes failure_callback was called with in ceremony c. *)
FailureCodes(c) == {log[c][i].code : i \in Events(c, "failure_callback")}

Called(c) == pc[c] # "idle"

(* ---- claims ---- *)

(* C1: when the begin post fails, failure_callback is invoked exactly once *)
(* with the begin-phase failure code and credentials_callback is never     *)
(* invoked in that ceremony.                                               *)
C1_BeginFailureStops ==
  \A c \in Cer :
    Has(c, "begin_rejected") =>
      /\ Count(c, "failure_callback") = 1
      /\ FailureCodes(c) = {args[c].begin_failure_code}
      /\ Count(c, "credentials_callback") = 0

(* C2: in a ceremony whose capability call does not reject, success_callback *)
(* and failure_callback are never both invoked, and neither is invoked     *)
(* twice.                                                                  *)
C2_AtMostOneCallback ==
  \A c \in Cer :
    ~ Has(c, "credentials_rejected") =>
      Count(c, "success_callback") + Count(c, "failure_callback") <= 1

(* C3: when the begin post succeeds, the capability resolves and the       *)
(* complete post succeeds, success_callback is invoked exactly once, with  *)
(* the complete-endpoint's response, and failure_callback is never invoked. *)
C3_SuccessPath ==
  \A c \in Cer :
    (Has(c, "begin_resolved") /\ Has(c, "credentials_resolved")
       /\ Has(c, "complete_resolved")) =>
      /\ Count(c, "success_callback") = 1
      /\ \A i \in Events(c, "success_callback"), j \in Events(c, "complete_resolved") :
           log[c][i].res = log[c][j].res
      /\ Count(c, "failure_callback") = 0

(* C4: when the begin post succeeds, the capability resolves and the       *)
(* complete post fails, failure_callback is invoked exactly once, with the *)
(* complete-phase code (2 for registration, 4 for login), and              *)
(* success_callback is never invoked.                                      *)
C4_CompleteFailure ==
  \A c \in Cer :
    (Has(c, "begin_resolved") /\ Has(c, "credentials_resolved")
       /\ Has(c, "complete_rejected")) =>
      /\ Count(c, "failure_callback") = 1
      /\ FailureCodes(c) = {IF args[c].method = "create" THEN 2 ELSE 4}
      /\ \A i \in Events(c, "failure_callback"), j \in Events(c, "complete_rejected") :
           log[c][i].error = log[c][j].error
      /\ Count(c, "success_callback") = 0

C4_Witness ==
  \E c \in Cer :
    /\ Has(c, "begin_resolved") /\ Has(c, "credentials_resolved")
    /\ Has(c, "complete_rejected") /\ Has(c, "failure_callback")
    /\ args[c].method = "get"

(* C5: when the begin post fails, the complete-endpoint is never posted to *)
(* in that ceremony, whatever the capability does afterwards, and          *)
(* failure_callback is called once, with the begin-phase code.             *)
C5_NoCompleteAfterBeginFailure ==
  \A c \in Cer :
    Has(c, "begin_rejected") =>
      /\ CompletePosts(c) = {}
      /\ Count(c, "failure_callback") = 1
      /\ FailureCodes(c) = {args[c].begin_failure_code}

(* C6: within a ceremony the begin post has settled before                 *)
(* credentials_callback is invoked, and a complete post is issued only     *)
(* after a capability call of that ceremony has resolved.                  *)
C6_Ordering ==
  \A c \in Cer :
    /\ \A i \in Events(c, "credentials_callback") :
         \E j \in Events(c, "begin_resolved") \cup Events(c, "begin_rejected") : j < i
    /\ \A i \in CompletePosts(c) :
         \E j \in Events(c, "credentials_resolved") :
           /\ j < i
           /\ \E k \in Events(c, "credentials_callback") : k < j

C6_Witness ==
  \E c \in Cer : CompletePosts(c) # {} /\ Has(c, "credentials_resolved")

(* C7: if every post and every capability call eventually settles, every  *)
(* ceremony that was begun eventually has success_callback or              *)
(* failure_callback invoked.                                               *)
C7_EventuallyCallback ==
  \A c \in Cer :
    Called(c) ~> (Has(c, "success_callback") \/ Has(c, "failure_callback"))

(* C8: when the begin post succeeds and the capability call rejects,       *)
(* neither success_callback nor failure_callback is invoked, the           *)
(* complete-endpoint is never posted to, and the chain has stopped.        *)
C8_CapabilityRejectionStalls ==
  \A c \in Cer :
    (Has(c, "begin_resolved") /\ Has(c, "credentials_rejected")) =>
      /\ Count(c, "success_callback") = 0
      /\ Count(c, "failure_callback") = 0
      /\ CompletePosts(c) = {}
      /\ pc[c] = "unhandled"

C8_Witness ==
  \E c \in Cer : Has(c, "begin_resolved") /\ Has(c, "credentials_rejected")

(* C9: in one ceremony the begin-endpoint is posted to exactly once, and   *)
(* credentials_callback is invoked and the complete-endpoint posted to at  *)
(* most once each, whatever fails.                                         *)
C9_NoRetries ==
  \A c \in Cer :
    Called(c) =>
      /\ Cardinality(BeginPosts(c)) = 1
      /\ Count(c, "credentials_callback") <= 1
      /\ Cardinality(CompletePosts(c)) <= 1
      /\ Count(c, "post") = Cardinality(BeginPosts(c)) + Cardinality(CompletePosts(c))

C9_Witness ==
  \E c \in Cer :
    /\ Has(c, "begin_rejected") /\ Has(c, "complete_rejected")
    /\ Cardinality(CompletePosts(c)) = 1

(* C10: webauthn_register and webauthn_login return the promise of the     *)
(* running ceremony, never undefined.                                      *)
C10_ReturnsPromise ==
  \A c \in Cer : Called(c) => ret[c] = "promise"

(* The fields each ceremony adds to the payload. *)
AddedKeys(method) ==
  IF method = "create" THEN {"attestationObject", "clientDataJSON"}
  ELSE {"credentialId", "authenticatorData", "clientDataJSON", "signature"}

(* C12: the body posted to the complete-endpoint is the payload posted to  *)
(* the begin-endpoint of the same ceremony merged with the fields of that  *)
(* ceremony's credential result (registration: attestationObject and       *)
(* clientDataJSON of the response; login: credentialId from rawId, and     *)
(* authenticatorData, clientDataJSON, signature of the response), and it   *)
(* goes to completeurl, not beginurl.                                      *)
C12_CompleteBody ==
  \A c \in Cer :
    \A i \in Events(c, "post") :
      i > 1 =>
        LET sent == log[c][1].body
            auth == log[c][i - 1].auth
            body == log[c][i].body
        IN /\ log[c][i - 1].ev = "credentials_resolved"
           /\ log[c][i].url = args[c].completeurl
           /\ log[c][i].url # log[c][1].url
           /\ DOMAIN body = DOMAIN sent \cup AddedKeys(args[c].method)
           /\ \A k \in DOMAIN sent \ AddedKeys(args[c].method) : body[k] = sent[k]
           /\ body["clientDataJSON"] = Uint8Array(auth.response.clientDataJSON)
           /\ args[c].method = "create" =>
                body["attestationObject"] = Uint8Array(auth.response.attestationObject)
           /\ args[c].method = "get" =>
                /\ body["credentialId"] = Uint8Array(auth.rawId)
                /\ body["authenticatorData"] = Uint8Array(auth.response.authenticatorData)
                /\ body["signature"] = Uint8Array(auth.response.signature)

C12_Witness ==
  \E c \in Cer :
    /\ args[c].method = "create"
    /\ CompletePosts(c) # {}
    /\ \A i \in CompletePosts(c) :
         log[c][i].body = [username |-> "alice", attestationObject |-> "Uint8Array:bytesA",
                           clientDataJSON |-> "Uint8Array:bytesB"]

(* C13: every failure_callback call of webauthn_register carries           *)
(* WEBAUTHN_REGISTER_FAIL_BEGIN or WEBAUTHN_REGISTER_FAIL_COMPLETE, every  *)
(* one of webauthn_login WEBAUTHN_LOGIN_FAIL_BEGIN or                      *)
(* WEBAUTHN_LOGIN_FAIL_COMPLETE, and the four codes are pairwise distinct. *)
C13_OwnFailureCodes ==
  /\ Cardinality({WEBAUTHN_REGISTER_FAIL_BEGIN, WEBAUTHN_REGISTER_FAIL_COMPLETE,
                  WEBAUTHN_LOGIN_FAIL_BEGIN, WEBAUTHN_LOGIN_FAIL_COMPLETE}) = 4
  /\ \A c \in Cer :
       /\ args[c].method = "create" =>
            FailureCodes(c) \subseteq
              {WEBAUTHN_REGISTER_FAIL_BEGIN, WEBAUTHN_REGISTER_FAIL_COMPLETE}
       /\ args[c].method = "get" =>
            FailureCodes(c) \subseteq
              {WEBAUTHN_LOGIN_FAIL_BEGIN, WEBAUTHN_LOGIN_FAIL_COMPLETE}

C13_Witness ==
  \E c, d \in Cer :
    /\ args[c].method = "get" /\ FailureCodes(c) = {3, 4}
    /\ args[d].method = "create" /\ FailureCodes(d) = {2}

(* Everything the model holds about ceremony c. *)
CeremonyState(c) == <<pc[c], args[c], log[c], ret[c]>>

(* What ceremony c has done carries only what it was called with and what  *)
(* was delivered to it.                                                    *)
OwnInputsOnly(c) ==
  /\ \A i \in Events(c, "post") :
       /\ log[c][i].url \in {args[c].beginurl, args[c].completeurl}
       /\ \A k \in DOMAIN args[c].payload \ AddedKeys(args[c].method) :
            k \in DOMAIN log[c][i].body /\ log[c][i].body[k] = args[c].payload[k]
       /\ DOMAIN log[c][i].body \subseteq
            DOMAIN args[c].payload \cup AddedKeys(args[c].method)
  /\ \A i \in Events(c, "credentials_callback") : log[c][i].method = args[c].method
  /\ FailureCodes(c) \subseteq {args[c].begin_failure_code, args[c].complete_failure_code}
  /\ \A i \in Events(c, "success_callback") :
       log[c][i - 1].ev = "complete_resolved" /\ log[c][i].res = log[c][i - 1].res

(* A step changes the state of at most one ceremony. *)
OneCeremonyPerStep ==
  \A c, d \in Cer :
    (c # d /\ CeremonyState(c)' # CeremonyState(c)) => CeremonyState(d)' = CeremonyState(d)

(* C14: ceremonies in flight together are independent under every          *)
(* interleaving: what one invocation posts and the callbacks it fires      *)
(* carry only its own payload, codes and responses, and no step of one     *)
(* invocation writes state of another (there is no module-level state).    *)
C14_Independent ==
  /\ [](\A c \in Cer : OwnInputsOnly(c))
  /\ [][OneCeremonyPerStep]_vars

C14_Witness ==
  \E c, d \in Cer :
    /\ c # d
    /\ pc[c] = "complete" /\ pc[d] = "complete"
    /\ args[c].method # args[d].method
    /\ args[c].payload # args[d].payload

(* C17: whenever credentials_callback is invoked, its argument is the body *)
(* (res.data) of that ceremony's successful begin post; never undefined,   *)
(* never a value returned by failure_callback.                             *)
C17_CredentialsArgument ==
  \A c \in Cer :
    \A i \in Events(c, "credentials_callback") :
      /\ log[c][i].opts # "undefined"
      /\ \E j \in Events(c, "begin_resolved") :
           j < i /\ log[c][i].opts = log[c][j].res.data

(* C18: failure_callback gets the complete-phase code only if the          *)
(* complete post itself failed and the begin-phase code only if the begin  *)
(* post itself failed, the error being that post's; an exception thrown by *)
(* success_callback is never reported as a transport failure.              *)
C18_CodeNamesFailedPhase ==
  \A c \in Cer :
    \A i \in Events(c, "failure_callback") :
      /\ log[c][i].code = args[c].complete_failure_code =>
           \E j \in Events(c, "complete_rejected") :
             j < i /\ log[c][i].error = log[c][j].error
      /\ log[c][i].code = args[c].begin_failure_code =>
           \E j \in Events(c, "begin_rejected") :
             j < i /\ log[c][i].error = log[c][j].error

(* C19: the caller's payload is never changed by a ceremony: at every      *)
(* point of a ceremony it has the keys and values it was posted to the     *)
(* begin-endpoint with at the call.                                        *)
C19_PayloadUntouched ==
  \A c \in Cer : Called(c) => args[c].payload = log[c][1].body

C19_Witness ==
  \E c \in Cer :
    /\ pc[c] = "settled"
    /\ CompletePosts(c) # {}
    /\ args[c].payload = [username |-> "alice"]

(* ---- complete_payload_callback on its own ---- *)

(* Keys a caller payload may have: one that no ceremony adds and three     *)
(* that collide with added fields.                                         *)
PayloadKeys == {"username", "clientDataJSON", "attestationObject", "signature"}

PayloadValues == {"alice", "mine"}

(* Every payload over PayloadKeys. *)
AnyPayloads == UNION { [keys -> PayloadValues] : keys \in SUBSET PayloadKeys }

InitPayload ==
  /\ NoCeremony
  /\ wire = NoWire
  /\ \E payload \in AnyPayloads, method \in {"create", "get"} :
       built = [stage |-> "input", method |-> method, payload |-> payload,
                auth |-> IF method = "create" THEN Attestation ELSE Assertion,
                result |-> EmptyPayload]

(* complete_payload_callback(payload, attestation) of webauthn_register. *)
RegisterCompletePayload ==
  /\ built.stage = "input"
  /\ built.method = "create"
  /\ built' = [built EXCEPT
                 !.stage = "built",
                 !.result = register_complete_payload_callback(built.payload, built.auth)]
  /\ UNCHANGED <<pc, args, log, ret, wire>>

(* complete_payload_callback(payload, assertion) of webauthn_login. *)
LoginCompletePayload ==
  /\ built.stage = "input"
  /\ built.method = "get"
  /\ built' = [built EXCEPT
                 !.stage = "built",
                 !.result = login_complete_payload_callback(built.payload, built.auth)]
  /\ UNCHANGED <<pc, args, log, ret, wire>>

NextPayload == RegisterCompletePayload \/ LoginCompletePayload

SpecPayload == InitPayload /\ [][NextPayload]_vars

(* C11: the key set of the CompletePayload is exactly the payload's keys   *)
(* plus attestationObject and clientDataJSON for registration, and plus    *)
(* credentialId, authenticatorData, clientDataJSON and signature for       *)
(* login.                                                                  *)
C11_CompletePayloadKeys ==
  built.stage = "built" =>
    /\ built.method = "create" =>
         DOMAIN built.result =
           DOMAIN built.payload \cup {"attestationObject", "clientDataJSON"}
    /\ built.method = "get" =>
         DOMAIN built.result =
           DOMAIN built.payload
             \cup {"credentialId", "authenticatorData", "clientDataJSON", "signature"}

C11_Witness ==
  /\ built.stage = "built"
  /\ built.method = "create"
  /\ DOMAIN built.payload = {"username"}
  /\ DOMAIN built.result = {"username", "attestationObject", "clientDataJSON"}

(* C20: where the payload already has a key named like an added field, the *)
(* CompletePayload has the value taken from the credential result for it,  *)
(* and every other payload key keeps the caller's value.                   *)
C20_CredentialFieldsWin ==
  built.stage = "built" =>
    LET added == AddedKeys(built.method)
        r == built.auth.response
    IN /\ \A k \in DOMAIN built.payload \ added : built.result[k] = built.payload[k]
       /\ \A k \in DOMAIN built.payload \cap added :
            /\ k = "clientDataJSON" => built.result[k] = "Uint8Array:" \o r.clientDataJSON
            /\ k = "attestationObject" => built.result[k] = "Uint8Array:" \o r.attestationObject
            /\ k = "signature" => built.result[k] = "Uint8Array:" \o r.signature

C20_Witness ==
  /\ built.stage = "built"
  /\ built.method = "get"
  /\ built.payload = [username |-> "alice", signature |-> "mine"]
  /\ built.result["signature"] = "Uint8Array:bytesD"
  /\ built.result["username"] = "alice"

(* ---- the codec bridge ---- *)

(* Longest array among the values sent through the bridge. *)
MaxLen == 2

(* Structured values, tagged with their JavaScript type.  A string is the  *)
(* sequence of its character codes, an object a function on its keys.      *)
Undefined == [t |-> "undefined", v |-> 0]

Leaves ==
  { Undefined, [t |-> "null", v |-> 0],
    [t |-> "boolean", v |-> FALSE], [t |-> "boolean", v |-> TRUE],
    [t |-> "number", v |-> 0], [t |-> "number", v |-> 23],
    [t |-> "number", v |-> 24], [t |-> "number", v |-> 255],
    [t |-> "string", v |-> << >>], [t |-> "string", v |-> <<97>>] }

ObjectKeys == { <<97>>, <<98>> }

Arrays(S) ==
  { [t |-> "array", v |-> s] : s \in UNION { [1..n -> S] : n \in 0..MaxLen } }

Objects(S) ==
  { [t |-> "object", v |-> f] : f \in UNION { [K -> S] : K \in SUBSET ObjectKeys } }

(* Scalars, arrays and objects of scalars, and one more level of nesting. *)
Values ==
  Leaves \cup Arrays(Leaves) \cup Objects(Leaves)
    \cup { [t |-> "array", v |-> <<x>>] : x \in Objects(Leaves) }
    \cup { [t |-> "object", v |-> [k \in {<<97>>} |-> x]] : x \in Arrays(Leaves) }

(* CBOR (RFC 8949): the initial byte holds the major type and, for         *)
(* arguments below 24, the argument; 24 announces a one-byte argument.     *)
Initial(major, n) ==
  IF n < 24 THEN << major * 32 + n >> ELSE << major * 32 + 24, n >>

RECURSIVE KeyOrder(_)
(* The keys of an object in the order they are written out. *)
KeyOrder(K) ==
  IF K = {} THEN << >>
  ELSE LET k == CHOOSE x \in K : TRUE IN << k >> \o KeyOrder(K \ {k})

RECURSIVE Encode(_)
RECURSIVE EncodeAll(_)
(* The concatenated encodings of a sequence of values. *)
EncodeAll(xs) == IF xs = << >> THEN << >> ELSE Encode(xs[1]) \o EncodeAll(Tail(xs))

(* The bytes of one data item. *)
Encode(x) ==
  CASE x.t = "number" -> Initial(0, x.v)
    [] x.t = "string" -> Initial(3, Len(x.v)) \o x.v
    [] x.t = "array" -> Initial(4, Len(x.v)) \o EncodeAll(x.v)
    [] x.t = "object" ->
         LET keys == KeyOrder(DOMAIN x.v)
         IN Initial(5, Len(keys))
              \o EncodeAll([i \in 1..(2 * Len(keys)) |->
                              IF i % 2 = 1 THEN [t |-> "string", v |-> keys[(i + 1) \div 2]]
                              ELSE x.v[keys[i \div 2]]])
    [] x.t = "boolean" -> << IF x.v THEN 245 ELSE 244 >>
    [] x.t = "null" -> << 246 >>
    [] x.t = "undefined" -> << 247 >>

(* encodeAsync(data): a Buffer holding the encoding. *)
encodeAsync(data) == [t |-> "Buffer", v |-> Encode(data)]

(* The argument of the data item starting at b[i], and where its content   *)
(* starts.                                                                 *)
Argument(b, i) ==
  IF b[i] % 32 < 24 THEN [n |-> b[i] % 32, next |-> i + 1]
  ELSE [n |-> b[i + 1], next |-> i + 2]

RECURSIVE DecodeItem(_, _)
RECURSIVE DecodeItems(_, _, _)
RECURSIVE DecodePairs(_, _, _)
(* n data items starting at b[i]. *)
DecodeItems(b, i, n) ==
  IF n = 0 THEN [values |-> << >>, next |-> i]
  ELSE LET first == DecodeItem(b, i)
           rest == DecodeItems(b, first.next, n - 1)
       IN [values |-> << first.value >> \o rest.values, next |-> rest.next]

(* n key/value pairs starting at b[i], as an object. *)
DecodePairs(b, i, n) ==
  IF n = 0 THEN [object |-> [k \in {} |-> Undefined], next |-> i]
  ELSE LET key == DecodeItem(b, i)
           val == DecodeItem(b, key.next)
           rest == DecodePairs(b, val.next, n - 1)
       IN [object |-> [k \in DOMAIN rest.object \cup {key.value.v} |->
                         IF k \in DOMAIN rest.object THEN rest.object[k] ELSE val.value],
           next |-> rest.next]

(* The data item starting at b[i] and the position after it. *)
DecodeItem(b, i) ==
  LET major == b[i] \div 32
      a == Argument(b, i)
  IN CASE major = 0 -> [value |-> [t |-> "number", v |-> a.n], next |-> a.next]
       [] major = 3 ->
            [value |-> [t |-> "string", v |-> SubSeq(b, a.next, a.next + a.n - 1)],
             next |-> a.next + a.n]
       [] major = 4 ->
            LET items == DecodeItems(b, a.next, a.n)
            IN [value |-> [t |-> "array", v |-> items.values], next |-> items.next]
       [] major = 5 ->
            LET pairs == DecodePairs(b, a.next, a.n)
            IN [value |-> [t |-> "object", v |-> pairs.object], next |-> pairs.next]
       [] b[i] = 244 -> [value |-> [t |-> "boolean", v |-> FALSE], next |-> i + 1]
       [] b[i] = 245 -> [value |-> [t |-> "boolean", v |-> TRUE], next |-> i + 1]
       [] b[i] = 246 -> [value |-> [t |-> "null", v |-> 0], next |-> i + 1]
       [] b[i] = 247 -> [value |-> Undefined, next |-> i + 1]

RECURSIVE DecodeFrom(_, _)
(* Every data item from b[i] to the end of the bytes. *)
DecodeFrom(b, i) ==
  IF i > Len(b) THEN << >>
  ELSE LET item == DecodeItem(b, i) IN << item.value >> \o DecodeFrom(b, item.next)

(* decodeAll(buffer): all the concatenated data items of the buffer. *)
decodeAll(buffer) == DecodeFrom(buffer.v, 1)

(* Buffer.from(arrayBuffer): a Buffer over the same bytes. *)
Buffer_from(data) == [t |-> "Buffer", v |-> data.v]

(* const [data] = items: the first item, undefined if there is none. *)
FirstOf(items) == IF items = << >> THEN Undefined ELSE items[1]

ContentTypes == {"application/cbor", "application/json", "undefined"}

(* responseType of a request before the interceptor: unset, or axios's     *)
(* json.                                                                   *)
ResponseTypes == {"undefined", "json"}

Headers(contentType) == [h \in {"content-type"} |-> contentType]

(* The request interceptor marking every request as arraybuffer. *)
cborRequestInterceptor_always_arraybuffer(request) ==
  IF request.headers["content-type"] = "application/cbor"
  THEN [request EXCEPT !.data = encodeAsync(@), !.responseType = "arraybuffer"]
  ELSE [request EXCEPT !.responseType = "arraybuffer"]

(* cborRequestInterceptor: the request is changed in place and returned. *)
cborRequestInterceptor(request) ==
  IF request.headers["content-type"] = "application/cbor"
  THEN [request EXCEPT !.data = encodeAsync(@), !.responseType = "arraybuffer"]
  ELSE request

(* The response interceptor keeping the whole array decodeAll returns. *)
cborResponseInterceptor_all_items(response) ==
  IF response.headers["content-type"] = "application/cbor"
  THEN [response EXCEPT !.data = [t |-> "array", v |-> decodeAll(Buffer_from(@))]]
  ELSE response

(* cborResponseInterceptor: the response is changed in place and returned. *)
cborResponseInterceptor(response) ==
  IF response.headers["content-type"] = "application/cbor"
  THEN [response EXCEPT !.data = FirstOf(decodeAll(Buffer_from(@)))]
  ELSE response

NoResponse == [headers |-> Headers("undefined"), data |-> Undefined]

InitCodec ==
  /\ NoCeremony
  /\ built = NotBuilt
  /\ \E v \in Values, contentType \in ContentTypes, responseType \in ResponseTypes :
       LET request == [headers |-> Headers(contentType), data |-> v,
                       responseType |-> responseType]
       IN wire = [stage |-> "outbound", original |-> request, request |-> request,
                  arrived |-> NoResponse, response |-> NoResponse]

(* The request passes the request interceptor. *)
RequestIntercepted ==
  /\ wire.stage = "outbound"
  /\ wire' = [wire EXCEPT !.stage = "sent",
                          !.request = cborRequestInterceptor(wire.request)]
  /\ UNCHANGED <<pc, args, log, ret, built>>

(* The peer answers with the body it was sent, under some content type; a  *)
(* body announced as application/cbor is the encoded body.  An encoded     *)
(* body reaches the client as an ArrayBuffer.                              *)
ResponseArrived(contentType) ==
  /\ wire.stage = "sent"
  /\ contentType = "application/cbor" => wire.request.data.t = "Buffer"
  /\ LET body == IF wire.request.data.t = "Buffer"
                 THEN [t |-> "ArrayBuffer", v |-> wire.request.data.v]
                 ELSE wire.request.data
         response == [headers |-> Headers(contentType), data |-> body]
     IN wire' = [wire EXCEPT !.stage = "inbound", !.arrived = response,
                             !.response = response]
  /\ UNCHANGED <<pc, args, log, ret, built>>

(* The response passes the response interceptor. *)
ResponseIntercepted ==
  /\ wire.stage = "inbound"
  /\ wire' = [wire EXCEPT !.stage = "done",
                          !.response = cborResponseInterceptor(wire.response)]
  /\ UNCHANGED <<pc, args, log, ret, built>>

NextCodec ==
  \/ RequestIntercepted
  \/ \E contentType \in ContentTypes : ResponseArrived(contentType)
  \/ ResponseIntercepted

SpecCodec == InitCodec /\ [][NextCodec]_vars

(* C15: with a content-type other than application/cbor the interceptors   *)
(* are no-ops: the request, and the response, come out with data,          *)
(* responseType and headers as they went in.                               *)
C15_NoOpWithoutMarker ==
  /\ (wire.stage \in {"sent", "inbound", "done"}
        /\ wire.original.headers["content-type"] # "application/cbor") =>
       wire.request = wire.original
  /\ (wire.stage = "done"
        /\ wire.arrived.headers["content-type"] # "application/cbor") =>
       wire.response = wire.arrived

C15_Witness ==
  /\ wire.stage = "done"
  /\ wire.original.headers["content-type"] = "application/json"
  /\ wire.arrived.headers["content-type"] = "application/json"
  /\ wire.original.data.t = "object"
  /\ wire.response.data = wire.original.data

====
